---- MODULE Spec2Model ----
(***************************************************************************)
(* A model of the PDF structuring pipeline (backend/pdf_processor.py), the *)
(* similarity search engine (backend/similarity_analyzer.py) and the batch *)
(* orchestrator (backend/app.py).                                          *)
(*                                                                         *)
(* Texts are sequences of one-character strings, so that splitting on      *)
(* whitespace, stripping and slicing are computed, not assumed.            *)
(* The file system is a function from a path to the decoded JSON value of  *)
(* the file at that path; a path exists iff it is in the DOMAIN.           *)
(***************************************************************************)
EXTENDS Integers, Sequences, FiniteSets, TLC

VARIABLES
    pdfs,        \* the PDF folder: file name -> uploaded PDF
    json,        \* the JSON folder: path -> persisted document index
    processor,   \* the heading model the PDFProcessor was constructed with
    op,          \* the operation that ran last
    args,        \* its arguments
    ret,         \* what it returned: [raised, value, ...]
    sections,    \* the in-memory section list of the last search
    embedCalls,  \* the texts the last operation gave to the embedding capability
    processing_progress,   \* the global progress record of app.py
    runs         \* the /api/process requests: client -> position in process_files

vars == <<pdfs, json, processor, op, args, ret, sections, embedCalls,
          processing_progress, runs>>

(***************************************************************************)
(* Bounds of the model.                                                    *)
(***************************************************************************)
\* the largest top_n a search is given
MaxTopN == 3

\* the longest list of document indices a search is given
MaxFiles == 2

\* the timestamps a processing run can read from the clock: 1..MaxTime
MaxTime == 2

\* the longest feature sequence the classifier is given
MaxBlocks == 2

\* the largest number of lines of a block given to smart_join_lines
MaxLines == 3

\* the largest number of lines of a document given to extract_text_for_heading
MaxDocLines == 3

\* the largest number of spans of a line given to extract_features_from_pdf
MaxSpans == 2

(***************************************************************************)
(* Text helpers.                                                           *)
(***************************************************************************)
Whitespace == {" ", "\t", "\n"}

RECURSIVE Rep(_, _)
Rep(n, t) == IF n <= 0 THEN <<>> ELSE t \o Rep(n - 1, t)

\* n words "w" separated by single spaces
WordsText(n) == IF n <= 0 THEN <<>> ELSE <<"w">> \o Rep(n - 1, <<" ", "w">>)

Min(a, b) == IF a <= b THEN a ELSE b

\* str.strip(): drop leading and trailing whitespace
RECURSIVE LStrip(_)
LStrip(t) == IF t # <<>> /\ Head(t) \in Whitespace THEN LStrip(Tail(t)) ELSE t

RECURSIVE RStrip(_)
RStrip(t) ==
    IF t # <<>> /\ t[Len(t)] \in Whitespace THEN RStrip(SubSeq(t, 1, Len(t) - 1)) ELSE t

Strip(t) == RStrip(LStrip(t))

\* str.split() with no separator: the maximal runs of non-whitespace characters
RECURSIVE SplitFrom(_, _, _)
SplitFrom(t, cur, acc) ==
    IF t = <<>> THEN (IF cur = <<>> THEN acc ELSE Append(acc, cur))
    ELSE IF Head(t) \in Whitespace
         THEN SplitFrom(Tail(t), <<>>, IF cur = <<>> THEN acc ELSE Append(acc, cur))
         ELSE SplitFrom(Tail(t), Append(cur, Head(t)), acc)

Split(t) == SplitFrom(t, <<>>, <<>>)

RECURSIVE SelectNonEmptyStripped(_)
SelectNonEmptyStripped(ws) ==
    IF ws = <<>> THEN <<>>
    ELSE IF Strip(Head(ws)) # <<>>
         THEN <<Strip(Head(ws))>> \o SelectNonEmptyStripped(Tail(ws))
         ELSE SelectNonEmptyStripped(Tail(ws))

\* SimilarityAnalyzer.count_words (the text is always a str here)
count_words(text) ==
    IF text = <<>> THEN 0 ELSE Len(SelectNonEmptyStripped(Split(text)))

\* the threshold of the word filter of both search entry points
MinWords == 15

(***************************************************************************)
(* Embeddings: vectors of two integer coordinates whose norm is an         *)
(* integer, so that the cosine is a rational with denominator 25 and a     *)
(* score is kept as 25 * cosine.                                           *)
(***************************************************************************)
Vecs == {<<1, 0>>, <<0, 1>>, <<3, 4>>, <<4, 3>>, <<0, 0>>}

Dot(u, v) == u[1] * v[1] + u[2] * v[2]

Norm(u) == CHOOSE k \in 0..(Dot(u, u)) : k * k = Dot(u, u)

\* sklearn cosine_similarity: rows are normalised, a zero row is left as it is
cosine_similarity(q, s) ==
    LET nq == IF Norm(q) = 0 THEN 1 ELSE Norm(q)
        ns == IF Norm(s) = 0 THEN 1 ELSE Norm(s)
    IN (Dot(q, s) * 25) \div (nq * ns)

\* SentenceTransformer.encode: a deterministic map from a text to a vector
Encode(text) ==
    LET n == Len(text) % 4
    IN CASE n = 0 -> <<1, 0>>
         [] n = 1 -> <<0, 1>>
         [] n = 2 -> <<3, 4>>
         [] OTHER -> <<4, 3>>

(***************************************************************************)
(* Records as Python dicts.                                                *)
(***************************************************************************)
SetField(d, k, v) == [x \in DOMAIN d \cup {k} |-> IF x = k THEN v ELSE d[x]]

Has(d, k) == k \in DOMAIN d

(***************************************************************************)
(* The file system.                                                        *)
(***************************************************************************)
\* os.path.exists
exists(fs, path) == path \in DOMAIN fs

\* open(path, 'r') followed by json.load: raises FileNotFoundError when the
\* path does not exist, otherwise yields a fresh decoded copy of the file
open_json(fs, path) ==
    IF exists(fs, path) THEN [raised |-> FALSE, data |-> fs[path]]
    ELSE [raised |-> TRUE, data |-> <<>>]

(***************************************************************************)
(* SimilarityAnalyzer                                                      *)
(***************************************************************************)
\* the sections of one decoded index, each with the document name attached
\* (for section in data['sections']: section['document'] = pdf_filename)
WithDocument(secs, pdf_filename) ==
    [i \in 1..Len(secs) |-> SetField(secs[i], "document", pdf_filename)]

\* load_sections_with_embeddings without the os.path.exists test: opening a
\* missing file raises
RECURSIVE load_sections_unchecked(_, _)
load_sections_unchecked(processed_files, fs) ==
    IF processed_files = <<>> THEN [raised |-> FALSE, sections |-> <<>>, fs |-> fs]
    ELSE LET file_info == Head(processed_files)
             rest == load_sections_unchecked(Tail(processed_files), fs)
             f == open_json(fs, file_info.json_path)
         IN IF f.raised THEN [raised |-> TRUE, sections |-> <<>>, fs |-> fs]
            ELSE IF ~Has(f.data, "sections") THEN rest
            ELSE [raised |-> rest.raised,
                  sections |-> WithDocument(f.data.sections, file_info.original_file)
                               \o rest.sections,
                  fs |-> fs]

\* load_sections_with_embeddings saving each index back after attaching the
\* document names to its sections
RECURSIVE load_sections_writeback(_, _)
load_sections_writeback(processed_files, fs) ==
    IF processed_files = <<>> THEN [raised |-> FALSE, sections |-> <<>>, fs |-> fs]
    ELSE LET file_info == Head(processed_files)
             rest == load_sections_writeback(Tail(processed_files), fs)
         IN IF ~exists(fs, file_info.json_path) THEN rest
            ELSE IF ~Has(fs[file_info.json_path], "sections") THEN rest
            ELSE LET named == WithDocument(fs[file_info.json_path].sections,
                                           file_info.original_file)
                 IN [raised |-> rest.raised,
                     sections |-> named \o rest.sections,
                     fs |-> [rest.fs EXCEPT ![file_info.json_path] =
                                SetField(@, "sections", named)]]

\* SimilarityAnalyzer.load_sections_with_embeddings. The files are opened for
\* reading only: the file system it leaves is the one it was given.
RECURSIVE load_sections_with_embeddings(_, _)
load_sections_with_embeddings(processed_files, fs) ==
    IF processed_files = <<>> THEN [raised |-> FALSE, sections |-> <<>>, fs |-> fs]
    ELSE LET file_info == Head(processed_files)
             rest == load_sections_with_embeddings(Tail(processed_files), fs)
         IN IF ~exists(fs, file_info.json_path) THEN rest
            ELSE LET f == open_json(fs, file_info.json_path)
                 IN IF f.raised THEN [raised |-> TRUE, sections |-> <<>>, fs |-> fs]
                    ELSE IF ~Has(f.data, "sections") THEN rest
                    ELSE [raised |-> rest.raised,
                          sections |-> WithDocument(f.data.sections, file_info.original_file)
                                       \o rest.sections,
                          fs |-> fs]

\* section['similarity_score'] = float(similarities[i])
AddScores(secs, query_embedding) ==
    [i \in 1..Len(secs) |->
        SetField(secs[i], "similarity_score",
                 cosine_similarity(query_embedding, secs[i].embedding))]

\* the insertion of an unstable sort: x goes before the elements of equal score
RECURSIVE InsertDescUnstable(_, _)
InsertDescUnstable(lst, x) ==
    IF lst = <<>> THEN <<x>>
    ELSE IF Head(lst).similarity_score > x.similarity_score
         THEN <<Head(lst)>> \o InsertDescUnstable(Tail(lst), x)
         ELSE <<x>> \o lst

\* list insertion that keeps the list descending by score and puts x after
\* every element whose score is not smaller
RECURSIVE InsertDesc(_, _)
InsertDesc(lst, x) ==
    IF lst = <<>> THEN <<x>>
    ELSE IF Head(lst).similarity_score >= x.similarity_score
         THEN <<Head(lst)>> \o InsertDesc(Tail(lst), x)
         ELSE <<x>> \o lst

RECURSIVE SortFrom(_, _)
SortFrom(lst, acc) ==
    IF lst = <<>> THEN acc ELSE SortFrom(Tail(lst), InsertDesc(acc, Head(lst)))

\* sorted(sections, key=lambda x: x['similarity_score'], reverse=True):
\* Python's sort is stable, also with reverse=True
sorted_by_score(secs) == SortFrom(secs, <<>>)

\* the result entry of find_similar_sections_fast
FastEntry(section, rank_counter, word_count) ==
    [document |-> section.document,
     section_title |-> section.section_title,
     importance_rank |-> rank_counter,
     page_number |-> section.page_number,
     similarity_score |-> section.similarity_score,
     level |-> section.level,
     content |-> section.content,
     word_count |-> word_count]

\* the loop of find_similar_sections_fast without the word filter
RECURSIVE fast_walk_no_filter(_, _, _, _)
fast_walk_no_filter(ranked_sections, results, rank_counter, top_n) ==
    IF ranked_sections = <<>> THEN results
    ELSE LET section == Head(ranked_sections)
             word_count == count_words(section.content)
             r == Append(results, FastEntry(section, rank_counter, word_count))
         IN IF Len(r) >= top_n THEN r
            ELSE fast_walk_no_filter(Tail(ranked_sections), r, rank_counter + 1, top_n)

\* the loop of find_similar_sections_fast with the rank taken from the position
\* in the sorted list: a skipped section uses up a rank
RECURSIVE fast_walk_sparse_rank(_, _, _, _)
fast_walk_sparse_rank(ranked_sections, results, rank_counter, top_n) ==
    IF ranked_sections = <<>> THEN results
    ELSE LET section == Head(ranked_sections)
             word_count == count_words(section.content)
         IN IF word_count < MinWords
            THEN fast_walk_sparse_rank(Tail(ranked_sections), results, rank_counter + 1, top_n)
            ELSE LET r == Append(results, FastEntry(section, rank_counter, word_count))
                 IN IF Len(r) >= top_n THEN r
                    ELSE fast_walk_sparse_rank(Tail(ranked_sections), r, rank_counter + 1,
                                               top_n)

\* the filter loop of find_similar_sections_fast
RECURSIVE fast_walk(_, _, _, _)
fast_walk(ranked_sections, results, rank_counter, top_n) ==
    IF ranked_sections = <<>> THEN results
    ELSE LET section == Head(ranked_sections)
             word_count == count_words(section.content)
         IN IF word_count < MinWords
            THEN fast_walk(Tail(ranked_sections), results, rank_counter, top_n)
            ELSE LET r == Append(results, FastEntry(section, rank_counter, word_count))
                 IN IF Len(r) >= top_n THEN r
                    ELSE fast_walk(Tail(ranked_sections), r, rank_counter + 1, top_n)

\* some section has no 'embedding' key: section['embedding'] raises KeyError
LacksEmbedding(secs) == \E i \in 1..Len(secs) : ~Has(secs[i], "embedding")

\* find_similar_sections_fast embedding every section's text again at query
\* time instead of reading the stored embedding
find_similar_sections_reembed(selected_text, processed_files, fs, top_n) ==
    LET loaded == load_sections_with_embeddings(processed_files, fs)
    IN IF loaded.raised
       THEN [raised |-> TRUE, value |-> <<>>, sections |-> <<>>,
             embed_calls |-> <<>>, fs |-> loaded.fs]
       ELSE IF loaded.sections = <<>>
       THEN [raised |-> FALSE, value |-> <<>>, sections |-> <<>>,
             embed_calls |-> <<>>, fs |-> loaded.fs]
       ELSE LET query_embedding == Encode(selected_text)
                scored == [i \in 1..Len(loaded.sections) |->
                              SetField(loaded.sections[i], "similarity_score",
                                       cosine_similarity(
                                           query_embedding,
                                           Encode(loaded.sections[i].section_text)))]
                ranked_sections == sorted_by_score(scored)
            IN [raised |-> FALSE,
                value |-> fast_walk(ranked_sections, <<>>, 1, top_n),
                sections |-> scored,
                embed_calls |-> <<selected_text>>
                                \o [i \in 1..Len(loaded.sections) |->
                                       loaded.sections[i].section_text],
                fs |-> loaded.fs]

\* SimilarityAnalyzer.find_similar_sections_fast: what it returns or whether it
\* raises, the in-memory section list it worked on, the texts it embedded,
\* and the file system it leaves
find_similar_sections_fast(selected_text, processed_files, fs, top_n) ==
    LET loaded == load_sections_with_embeddings(processed_files, fs)
    IN IF loaded.raised
       THEN [raised |-> TRUE, value |-> <<>>, sections |-> <<>>,
             embed_calls |-> <<>>, fs |-> loaded.fs]
       ELSE IF loaded.sections = <<>>
       THEN [raised |-> FALSE, value |-> <<>>, sections |-> <<>>,
             embed_calls |-> <<>>, fs |-> loaded.fs]
       ELSE LET query_embedding == Encode(selected_text)
            IN IF LacksEmbedding(loaded.sections)
               THEN [raised |-> TRUE, value |-> <<>>, sections |-> loaded.sections,
                     embed_calls |-> <<selected_text>>, fs |-> loaded.fs]
               ELSE LET scored == AddScores(loaded.sections, query_embedding)
                        ranked_sections == sorted_by_score(scored)
                    IN [raised |-> FALSE,
                        value |-> fast_walk(ranked_sections, <<>>, 1, top_n),
                        sections |-> scored,
                        embed_calls |-> <<selected_text>>,
                        fs |-> loaded.fs]

\* content[:200] + "..." if len(content) > 200 else content
content_preview(content) ==
    IF Len(content) > 200 THEN SubSeq(content, 1, 200) \o <<".", ".", ".">> ELSE content

\* the result entry of search_across_all_documents
SearchEntry(section, rank_counter, word_count) ==
    [document |-> section.document,
     section_title |-> section.section_title,
     rank |-> rank_counter,
     page_number |-> section.page_number,
     similarity_score |-> section.similarity_score,
     level |-> section.level,
     content_preview |-> content_preview(section.content),
     word_count |-> word_count]

\* the filter loop of search_across_all_documents skipping the sections of
\* exactly 15 words too
RECURSIVE search_walk_strict(_, _, _, _)
search_walk_strict(ranked_sections, results, rank_counter, top_n) ==
    IF ranked_sections = <<>> THEN results
    ELSE LET section == Head(ranked_sections)
             word_count == count_words(section.content)
         IN IF word_count <= MinWords
            THEN search_walk_strict(Tail(ranked_sections), results, rank_counter, top_n)
            ELSE LET r == Append(results, SearchEntry(section, rank_counter, word_count))
                 IN IF Len(r) >= top_n THEN r
                    ELSE search_walk_strict(Tail(ranked_sections), r, rank_counter + 1, top_n)

\* the filter loop of search_across_all_documents
RECURSIVE search_walk(_, _, _, _)
search_walk(ranked_sections, results, rank_counter, top_n) ==
    IF ranked_sections = <<>> THEN results
    ELSE LET section == Head(ranked_sections)
             word_count == count_words(section.content)
         IN IF word_count < MinWords
            THEN search_walk(Tail(ranked_sections), results, rank_counter, top_n)
            ELSE LET r == Append(results, SearchEntry(section, rank_counter, word_count))
                 IN IF Len(r) >= top_n THEN r
                    ELSE search_walk(Tail(ranked_sections), r, rank_counter + 1, top_n)

\* SimilarityAnalyzer.search_across_all_documents
search_across_all_documents(query_text, processed_files, fs, top_n) ==
    LET loaded == load_sections_with_embeddings(processed_files, fs)
    IN IF loaded.raised
       THEN [raised |-> TRUE, value |-> <<>>, sections |-> <<>>,
             embed_calls |-> <<>>, fs |-> loaded.fs]
       ELSE IF loaded.sections = <<>>
       THEN [raised |-> FALSE, value |-> <<>>, sections |-> <<>>,
             embed_calls |-> <<>>, fs |-> loaded.fs]
       ELSE LET query_embedding == Encode(query_text)
            IN IF LacksEmbedding(loaded.sections)
               THEN [raised |-> TRUE, value |-> <<>>, sections |-> loaded.sections,
                     embed_calls |-> <<query_text>>, fs |-> loaded.fs]
               ELSE LET scored == AddScores(loaded.sections, query_embedding)
                        ranked_sections == sorted_by_score(scored)
                    IN [raised |-> FALSE,
                        value |-> search_walk(ranked_sections, <<>>, 1, top_n),
                        sections |-> scored,
                        embed_calls |-> <<query_text>>,
                        fs |-> loaded.fs]

(***************************************************************************)
(* PDFProcessor: layout feature extraction.                                *)
(*                                                                         *)
(* A PDF is [readable, pages]; a page is [height, width, blocks]; a block  *)
(* is [type, bbox, lines]; a line is [spans]; a span is [text, size,       *)
(* flags, origin]. Sizes and coordinates are integers; a ratio of two of   *)
(* them is kept as the fraction [n, d] and compared by cross               *)
(* multiplication, which is what the float comparison decides.             *)
(***************************************************************************)
Frac(n, d) == [n |-> n, d |-> d]

\* a / b > n / d, a / b < n / d and a / b <= c / d for positive denominators
FracGT(r, n, d) == r.n * d > n * r.d

FracLT(r, n, d) == r.n * d < n * r.d

FracLE(r, q) == r.n * q.d <= q.n * r.d

RECURSIVE SeqMax(_)
SeqMax(xs) ==
    IF Len(xs) = 1 THEN xs[1]
    ELSE LET m == SeqMax(Tail(xs)) IN IF Head(xs) >= m THEN Head(xs) ELSE m

RECURSIVE Flatten(_)
Flatten(xss) == IF xss = <<>> THEN <<>> ELSE Head(xss) \o Flatten(Tail(xss))

\* flags & bit != 0, for bit a power of two
HasFlag(flags, bit) == (flags \div bit) % 2 = 1

\* "".join(span["text"] for span in line["spans"])
LineText(line) == Flatten([i \in 1..Len(line.spans) |-> line.spans[i].text])

StartsWithSpace(t) == t # <<>> /\ Head(t) = " "

EndsWithSpace(t) == t # <<>> /\ t[Len(t)] = " "

\* the loop of smart_join_lines: joined is the list of pieces so far
RECURSIVE JoinFrom(_, _, _)
JoinFrom(lines, i, joined) ==
    IF i > Len(lines) THEN joined
    ELSE IF i = 1 THEN JoinFrom(lines, i + 1, Append(joined, lines[i]))
    ELSE IF EndsWithSpace(joined[Len(joined)]) \/ StartsWithSpace(lines[i])
         THEN JoinFrom(lines, i + 1, Append(joined, lines[i]))
         ELSE JoinFrom(lines, i + 1, Append(joined, <<" ">> \o lines[i]))

\* PDFProcessor.smart_join_lines
smart_join_lines(lines) == Strip(Flatten(JoinFrom(lines, 1, <<>>)))

\* the sizes of all spans of the text blocks of a page
PageFontSizes(page) ==
    Flatten([b \in 1..Len(page.blocks) |->
        IF page.blocks[b].type # 0 THEN <<>>
        ELSE Flatten([l \in 1..Len(page.blocks[b].lines) |->
                [k \in 1..Len(page.blocks[b].lines[l].spans) |->
                    page.blocks[b].lines[l].spans[k].size]])])

\* the x origins of the first spans of the lines that have spans
LineXCoords(b) ==
    {b.lines[l].spans[1].origin[1] : l \in {l \in 1..Len(b.lines) : b.lines[l].spans # <<>>}}

is_table_block(b) == Len(b.lines) > 1 /\ Cardinality(LineXCoords(b)) > 1

\* the lines of a block whose text is not blank
RECURSIVE LineTexts(_)
LineTexts(lines) ==
    IF lines = <<>> THEN <<>>
    ELSE IF Strip(LineText(Head(lines))) # <<>>
         THEN <<LineText(Head(lines))>> \o LineTexts(Tail(lines))
         ELSE LineTexts(Tail(lines))

\* underline_present: some span of some line of the block has flag 4
UnderlinePresent(b) ==
    \E l \in 1..Len(b.lines) : \E k \in 1..Len(b.lines[l].spans) :
        HasFlag(b.lines[l].spans[k].flags, 4)

\* a block is kept when it is text, not a table, and has a non-blank line
Retained(b) == b.type = 0 /\ ~is_table_block(b) /\ LineTexts(b.lines) # <<>>

\* b['lines'][0]['spans'][0] raises IndexError when the first line has no spans
FirstSpanMissing(b) == b.lines[1].spans = <<>>

\* block_data of one retained block
BlockData(b, page_num, page, max_font_size_page) ==
    LET first_span == b.lines[1].spans[1]
    IN [text |-> smart_join_lines(LineTexts(b.lines)),
        font_size |-> first_span.size,
        bbox |-> b.bbox,
        page_num |-> page_num,
        page_height |-> page.height,
        max_font_size_page |-> max_font_size_page,
        is_bold |-> HasFlag(first_span.flags, 16),
        is_underlined |-> UnderlinePresent(b)]

RECURSIVE SelectRetained(_)
SelectRetained(blocks) ==
    IF blocks = <<>> THEN <<>>
    ELSE IF Retained(Head(blocks)) THEN <<Head(blocks)>> \o SelectRetained(Tail(blocks))
         ELSE SelectRetained(Tail(blocks))

\* all_text_blocks_raw contributed by one page (page_num counted from 0)
PageBlocks(page, page_num) ==
    LET sizes == PageFontSizes(page)
        max_font_size_page == IF sizes = <<>> THEN 1 ELSE SeqMax(sizes)
        kept == SelectRetained(page.blocks)
    IN [i \in 1..Len(kept) |-> BlockData(kept[i], page_num, page, max_font_size_page)]

\* the feature vector of one block. The features read only by the pretrained
\* model (punctuation, x position, title-case and stopword ratios, spacing) are
\* left out: the model's predictions are an input of the classifier here.
FeatureVector(block, max_font_size_pdf) ==
    [text |-> block.text,
     font_size_relative_to_max_pdf |-> Frac(block.font_size, max_font_size_pdf),
     font_size_relative_to_max_page |-> Frac(block.font_size, block.max_font_size_page),
     is_bold |-> block.is_bold,
     num_words |-> Len(Split(Strip(block.text))),
     y_pos_relative |-> Frac(block.bbox[2], block.page_height),
     page_no |-> block.page_num,
     is_underlined |-> block.is_underlined]

\* PDFProcessor.extract_features_from_pdf: raises when the file cannot be
\* opened or when a retained block's first line has no spans
extract_features_from_pdf(pdf) ==
    IF ~pdf.readable THEN [raised |-> TRUE, value |-> <<>>]
    ELSE IF \E p \in 1..Len(pdf.pages) : \E b \in 1..Len(pdf.pages[p].blocks) :
                Retained(pdf.pages[p].blocks[b]) /\ FirstSpanMissing(pdf.pages[p].blocks[b])
    THEN [raised |-> TRUE, value |-> <<>>]
    ELSE LET all_text_blocks_raw ==
                 Flatten([p \in 1..Len(pdf.pages) |-> PageBlocks(pdf.pages[p], p - 1)])
             all_font_sizes_doc ==
                 [i \in 1..Len(all_text_blocks_raw) |-> all_text_blocks_raw[i].font_size]
             max_font_size_pdf ==
                 IF all_font_sizes_doc = <<>> THEN 1 ELSE SeqMax(all_font_sizes_doc)
         IN [raised |-> FALSE,
             value |-> [i \in 1..Len(all_text_blocks_raw) |->
                          FeatureVector(all_text_blocks_raw[i], max_font_size_pdf)]]

(***************************************************************************)
(* PDFProcessor: heading classification.                                   *)
(***************************************************************************)
\* the sort key (page_no, y_pos_relative) of a is not greater than that of b
KeyLE(a, b) ==
    \/ a.page_no < b.page_no
    \/ a.page_no = b.page_no /\ FracLE(a.y_pos_relative, b.y_pos_relative)

\* list insertion that puts x before the elements of equal key: a sort that
\* is not stable
RECURSIVE InsertAscUnstable(_, _)
InsertAscUnstable(lst, x) ==
    IF lst = <<>> THEN <<x>>
    ELSE IF ~KeyLE(x, Head(lst)) THEN <<Head(lst)>> \o InsertAscUnstable(Tail(lst), x)
         ELSE <<x>> \o lst

\* list insertion that keeps the list ascending by key and puts x after every
\* element whose key is not greater
RECURSIVE InsertAsc(_, _)
InsertAsc(lst, x) ==
    IF lst = <<>> THEN <<x>>
    ELSE IF KeyLE(Head(lst), x) THEN <<Head(lst)>> \o InsertAsc(Tail(lst), x)
         ELSE <<x>> \o lst

RECURSIVE SortAscFrom(_, _)
SortAscFrom(lst, acc) ==
    IF lst = <<>> THEN acc ELSE SortAscFrom(Tail(lst), InsertAsc(acc, Head(lst)))

\* sorted(input_data, key=lambda x: (x['page_no'], x['y_pos_relative'])): stable
sorted_by_position(input_data) == SortAscFrom(input_data, <<>>)

\* the heuristic rules with the H2 rule tried before the H1 rule
heuristic_level_h2_first(item) ==
    LET font_size_ratio == item.font_size_relative_to_max_pdf
    IN IF FracGT(font_size_ratio, 6, 10) /\ (item.is_bold \/ item.num_words <= 15) THEN "H2"
       ELSE IF FracGT(font_size_ratio, 8, 10) /\ item.is_bold /\ item.num_words <= 10
       THEN "H1"
       ELSE IF FracGT(font_size_ratio, 5, 10) /\ item.num_words <= 20 THEN "H3"
       ELSE "None"

\* the level the heuristic rules give a block
heuristic_level(item) ==
    LET font_size_ratio == item.font_size_relative_to_max_pdf
    IN IF FracGT(font_size_ratio, 8, 10) /\ item.is_bold /\ item.num_words <= 10 THEN "H1"
       ELSE IF FracGT(font_size_ratio, 6, 10) /\ (item.is_bold \/ item.num_words <= 15)
       THEN "H2"
       ELSE IF FracGT(font_size_ratio, 5, 10) /\ item.num_words <= 20 THEN "H3"
       ELSE "None"

\* the title test of the heuristic strategy
is_title_block(item) ==
    /\ item.page_no = 0
    /\ FracLT(item.y_pos_relative, 1, 10)
    /\ FracGT(item.font_size_relative_to_max_pdf, 9, 10)

OutlineEntry(level, item) == [level |-> level, text |-> item.text, page |-> item.page_no + 1]

\* the loop of predict_headings_simple over sorted_data
RECURSIVE simple_loop(_, _, _)
simple_loop(sorted_data, title_text, outline) ==
    IF sorted_data = <<>> THEN [title |-> Strip(title_text), outline |-> outline]
    ELSE LET item == Head(sorted_data)
             level == heuristic_level(item)
         IN IF is_title_block(item)
            THEN simple_loop(Tail(sorted_data), item.text, outline)
            ELSE IF level # "None"
            THEN simple_loop(Tail(sorted_data), title_text,
                             Append(outline, OutlineEntry(level, item)))
            ELSE simple_loop(Tail(sorted_data), title_text, outline)

\* PDFProcessor.predict_headings_simple
predict_headings_simple(input_data) ==
    simple_loop(sorted_by_position(input_data), <<>>, <<>>)

\* the classes of the pretrained model, by class index (0-based in the code)
CLASS_NAMES == <<"H1", "H2", "H3", "None", "Title">>

\* the loop of the model strategy putting each new outline entry in front
RECURSIVE model_loop_prepend(_, _, _, _)
model_loop_prepend(input_data, pred_levels, title_text, outline) ==
    IF input_data = <<>> \/ pred_levels = <<>>
    THEN [title |-> Strip(title_text), outline |-> outline]
    ELSE LET item == Head(input_data)
             level == Head(pred_levels)
         IN IF level = "Title"
            THEN model_loop_prepend(Tail(input_data), Tail(pred_levels),
                                    title_text \o item.text \o <<" ">>, outline)
            ELSE IF level # "None"
            THEN model_loop_prepend(Tail(input_data), Tail(pred_levels), title_text,
                                    <<OutlineEntry(level, item)>> \o outline)
            ELSE model_loop_prepend(Tail(input_data), Tail(pred_levels), title_text,
                                    outline)

\* the loop of predict_headings_with_model over zip(input_data, pred_levels)
RECURSIVE model_loop(_, _, _, _)
model_loop(input_data, pred_levels, title_text, outline) ==
    IF input_data = <<>> \/ pred_levels = <<>>
    THEN [title |-> Strip(title_text), outline |-> outline]
    ELSE LET item == Head(input_data)
             level == Head(pred_levels)
         IN IF level = "Title"
            THEN model_loop(Tail(input_data), Tail(pred_levels),
                            title_text \o item.text \o <<" ">>, outline)
            ELSE IF level # "None"
            THEN model_loop(Tail(input_data), Tail(pred_levels), title_text,
                            Append(outline, OutlineEntry(level, item)))
            ELSE model_loop(Tail(input_data), Tail(pred_levels), title_text, outline)

(***************************************************************************)
(* The pretrained model as the processor holds it after construction:      *)
(*   loaded             self.heading_model is set                          *)
(*   feature_names      self.feature_names is set                          *)
(*   feature_names_attr the model object has feature_names_ (or _in_)      *)
(*   predict_raises     heading_model.predict raises on this input         *)
(*   label_encoder      self.label_encoder is set                          *)
(* The class indices the model predicts are an input (predictions); an     *)
(* index outside 0..4 is one the decoder does not know.                    *)
(***************************************************************************)
NoModel ==
    [loaded |-> FALSE, feature_names |-> FALSE, feature_names_attr |-> FALSE,
     predict_raises |-> FALSE, label_encoder |-> FALSE]

\* an exception is raised inside the try block of predict_headings_with_model
ModelStrategyFails(hm, input_data, predictions) ==
    \/ input_data = <<>>                      \* df['punctuation']: KeyError
    \/ ~hm.feature_names /\ ~hm.feature_names_attr   \* expected_cols is None
    \/ hm.predict_raises
    \/ \E i \in 1..Len(predictions) : predictions[i] \notin 0..4  \* decoding

NoHeadings == [title |-> <<>>, outline |-> <<>>]

\* the try block of predict_headings_with_model
model_strategy(hm, input_data, predictions) ==
    IF ModelStrategyFails(hm, input_data, predictions)
    THEN [raised |-> TRUE, value |-> NoHeadings]
    ELSE LET pred_levels == [i \in 1..Len(predictions) |-> CLASS_NAMES[predictions[i] + 1]]
         IN [raised |-> FALSE, value |-> model_loop(input_data, pred_levels, <<>>, <<>>)]

\* predict_headings_with_model without the except clause: a failure of the
\* model strategy reaches the caller
predict_headings_no_fallback(hm, input_data, predictions) ==
    IF ~hm.loaded
    THEN [raised |-> FALSE, value |-> predict_headings_simple(input_data),
          strategy |-> "heuristic"]
    ELSE LET t == model_strategy(hm, input_data, predictions)
         IN IF t.raised
            THEN [raised |-> TRUE, value |-> NoHeadings, strategy |-> "none"]
            ELSE [raised |-> FALSE, value |-> t.value, strategy |-> "pretrained"]

\* PDFProcessor.predict_headings_with_model: the title and outline (or that it
\* raised), and the strategy that produced them
predict_headings_with_model(hm, input_data, predictions) ==
    IF ~hm.loaded
    THEN [raised |-> FALSE, value |-> predict_headings_simple(input_data),
          strategy |-> "heuristic"]
    ELSE LET t == model_strategy(hm, input_data, predictions)
         IN IF t.raised   \* except Exception: fall back
            THEN [raised |-> FALSE, value |-> predict_headings_simple(input_data),
                  strategy |-> "heuristic"]
            ELSE [raised |-> FALSE, value |-> t.value, strategy |-> "pretrained"]

(***************************************************************************)
(* PDFProcessor: section segmentation and the document index.              *)
(***************************************************************************)
\* str.lower() on the letters the documents of the model use
LowerChar(c) ==
    CASE c = "A" -> "a" [] c = "B" -> "b" [] c = "C" -> "c" [] c = "T" -> "t"
      [] c = "W" -> "w" [] OTHER -> c

Lower(t) == [i \in 1..Len(t) |-> LowerChar(t[i])]

\* needle in hay
Contains(hay, needle) ==
    \E i \in 0..(Len(hay) - Len(needle)) : SubSeq(hay, i + 1, i + Len(needle)) = needle

\* the texts of the lines of one page, block after block
PageLines(page) ==
    Flatten([b \in 1..Len(page.blocks) |->
        [l \in 1..Len(page.blocks[b].lines) |-> LineText(page.blocks[b].lines[l])]])

\* the lines of pages start_page..end_page (0-based, inclusive), in order
WindowLines(pdf, start_page, end_page) ==
    Flatten([k \in 1..(end_page - start_page + 1) |-> PageLines(pdf.pages[start_page + k])])

\* the line loop of extract_text_for_heading without the 'continue' after the
\* heading is found: the heading line goes on to the accumulation
RECURSIVE heading_scan_keep_heading(_, _, _, _, _, _)
heading_scan_keep_heading(lines, text, has_next, next_text, heading_found, full_text) ==
    IF lines = <<>> THEN Strip(full_text)
    ELSE LET line_text == Head(lines)
             found == heading_found \/ Contains(Lower(line_text), Lower(text))
         IN IF found
            THEN IF heading_found /\ has_next /\ Contains(Lower(line_text), Lower(next_text))
                 THEN Strip(full_text)
                 ELSE heading_scan_keep_heading(Tail(lines), text, has_next, next_text, TRUE,
                                                full_text \o line_text \o <<" ">>)
            ELSE heading_scan_keep_heading(Tail(lines), text, has_next, next_text, FALSE,
                                           full_text)

\* the line loop of extract_text_for_heading; next_text is <<>> and has_next
\* is FALSE when there is no next heading
RECURSIVE heading_scan(_, _, _, _, _, _)
heading_scan(lines, text, has_next, next_text, heading_found, full_text) ==
    IF lines = <<>> THEN Strip(full_text)
    ELSE LET line_text == Head(lines)
         IN IF ~heading_found /\ Contains(Lower(line_text), Lower(text))
            THEN heading_scan(Tail(lines), text, has_next, next_text, TRUE, full_text)
            ELSE IF heading_found
            THEN IF has_next /\ Contains(Lower(line_text), Lower(next_text))
                 THEN Strip(full_text)
                 ELSE heading_scan(Tail(lines), text, has_next, next_text, TRUE,
                                   full_text \o line_text \o <<" ">>)
            ELSE heading_scan(Tail(lines), text, has_next, next_text, FALSE, full_text)

\* PDFProcessor.extract_text_for_heading; i is the index of the heading in the
\* outline, and the next heading is the entry after it, if any
extract_text_for_heading(pdf, outline, i) ==
    LET heading == outline[i]
        has_next == i < Len(outline)
        start_page == heading.page - 1
        end_page == IF has_next THEN outline[i + 1].page - 1 ELSE Len(pdf.pages) - 1
    IN heading_scan(WindowLines(pdf, start_page, end_page), heading.text, has_next,
                    IF has_next THEN outline[i + 1].text ELSE <<>>, FALSE, <<>>)

section_text_of(curr, content) == curr.text \o <<".", " ">> \o content

\* the section built for outline entry i with non-empty content
MakeSection(curr, content) ==
    [section_title |-> curr.text,
     page_number |-> curr.page,
     level |-> curr.level,
     content |-> content,
     embedding |-> Encode(section_text_of(curr, content)),
     section_text |-> section_text_of(curr, content)]

\* extract_sections_with_content without the 'if content' test: an entry
\* without content gets a section too
RECURSIVE sections_from_keep_empty(_, _, _)
sections_from_keep_empty(pdf, outline, i) ==
    IF i > Len(outline) THEN [sections |-> <<>>, embed_calls |-> <<>>]
    ELSE LET content == extract_text_for_heading(pdf, outline, i)
             rest == sections_from_keep_empty(pdf, outline, i + 1)
         IN [sections |-> <<MakeSection(outline[i], content)>> \o rest.sections,
             embed_calls |-> <<section_text_of(outline[i], content)>> \o rest.embed_calls]

\* PDFProcessor.extract_sections_with_content: the sections, and the texts
\* given to the embedding capability, in call order
RECURSIVE sections_from(_, _, _)
sections_from(pdf, outline, i) ==
    IF i > Len(outline) THEN [sections |-> <<>>, embed_calls |-> <<>>]
    ELSE LET content == extract_text_for_heading(pdf, outline, i)
             rest == sections_from(pdf, outline, i + 1)
         IN IF content # <<>>
            THEN [sections |-> <<MakeSection(outline[i], content)>> \o rest.sections,
                  embed_calls |-> <<section_text_of(outline[i], content)>> \o rest.embed_calls]
            ELSE rest

extract_sections_with_content(pdf, outline) == sections_from(pdf, outline, 1)

\* " ".join(texts)
RECURSIVE JoinSpace(_)
JoinSpace(texts) ==
    IF texts = <<>> THEN <<>>
    ELSE IF Len(texts) = 1 THEN texts[1]
    ELSE texts[1] \o <<" ">> \o JoinSpace(Tail(texts))

\* PDFProcessor.process_pdf: the index record (or that it raised) and the texts
\* given to the embedding capability; strategy is the strategy that produced
\* the outline
process_pdf(pdf, filename, hm, predictions, now) ==
    LET features == extract_features_from_pdf(pdf)
    IN IF features.raised
       THEN [raised |-> TRUE, value |-> <<>>, embed_calls |-> <<>>, strategy |-> "none"]
       ELSE LET json_data == predict_headings_with_model(hm, features.value, predictions)
            IN IF json_data.raised
               THEN [raised |-> TRUE, value |-> <<>>, embed_calls |-> <<>>,
                     strategy |-> "none"]
               ELSE LET built == extract_sections_with_content(pdf, json_data.value.outline)
                        full_text ==
                            JoinSpace([i \in 1..Len(built.sections) |->
                                          built.sections[i].content])
                    IN [raised |-> FALSE,
                        value |->
                            [title |-> json_data.value.title,
                             outline |-> json_data.value.outline,
                             metadata |->
                                 [filename |-> filename,
                                  processed_at |-> now,
                                  total_blocks |-> Len(features.value),
                                  total_sections |-> Len(built.sections),
                                  model_used |->
                                      IF hm.loaded THEN "pretrained" ELSE "heuristic"],
                             sections |-> built.sections,
                             full_text |-> full_text,
                             full_text_embedding |-> Encode(full_text)],
                        embed_calls |-> Append(built.embed_calls, full_text),
                        strategy |-> json_data.strategy]

(***************************************************************************)
(* The documents of the model.                                             *)
(***************************************************************************)
Span(text, size, flags) == [text |-> text, size |-> size, flags |-> flags, origin |-> <<10, 0>>]

\* a text block of one line of one span, from y0 to y0 + 5 on the page
Block(y0, text, size, flags) ==
    [type |-> 0, bbox |-> <<10, y0, 90, y0 + 5>>,
     lines |-> <<[spans |-> <<Span(text, size, flags)>>]>>]

Page(blocks) == [height |-> 100, width |-> 100, blocks |-> blocks]

\* one page: a title line, heading "A" with a body of 16 words, heading "B"
\* with a body of 8 words
PdfP ==
    [readable |-> TRUE,
     pages |-> <<Page(<<Block(2, <<"T">>, 20, 0),
                        Block(20, <<"A">>, 18, 16),
                        Block(30, WordsText(16), 10, 0),
                        Block(60, <<"B">>, 14, 16),
                        Block(70, WordsText(8), 10, 0)>>)>>]

\* two pages: two large lines at the top of the first page, heading "C" on
\* the second page with a body of 15 words, and a heading whose text never
\* occurs alone on a line
PdfQ ==
    [readable |-> TRUE,
     pages |-> <<Page(<<Block(2, <<"T">>, 20, 0),
                        Block(8, <<"A", "b">>, 19, 4)>>),
                 Page(<<Block(10, <<"C">>, 16, 16),
                        Block(20, WordsText(15), 10, 0)>>)>>]

\* a file that cannot be opened as a PDF
PdfR == [readable |-> FALSE, pages |-> <<>>]

\* the PDF folders the system is started with
PdfFolders ==
    {<<>>,
     [x \in {"p.pdf"} |-> PdfP],
     [x \in {"r.pdf"} |-> PdfR],
     [x \in {"p.pdf", "q.pdf"} |-> IF x = "p.pdf" THEN PdfP ELSE PdfQ],
     [x \in {"q.pdf", "r.pdf"} |-> IF x = "q.pdf" THEN PdfQ ELSE PdfR],
     [x \in {"a.pdf", "p.pdf"} |-> IF x = "a.pdf" THEN PdfR ELSE PdfP]}

\* the file names of the model in sorted order, with the name
\* filename.replace('.pdf', '.json') gives and the path in the JSON folder
FileNames == <<"a.pdf", "b.pdf", "c.pdf", "p.pdf", "q.pdf", "r.pdf">>

JsonNames == <<"a.json", "b.json", "c.json", "p.json", "q.json", "r.json">>

JsonPaths == <<"json/a.json", "json/b.json", "json/c.json",
               "json/p.json", "json/q.json", "json/r.json">>

IndexOfName(names, name) == CHOOSE i \in 1..Len(names) : names[i] = name

\* os.path.join(JSON_FOLDER, filename.replace('.pdf', '.json'))
json_path_of(filename) == JsonPaths[IndexOfName(FileNames, filename)]

\* the entry app.py builds for a JSON file of the folder
FileInfo(k) ==
    [original_file |-> FileNames[k], json_file |-> JsonNames[k], json_path |-> JsonPaths[k]]

(***************************************************************************)
(* The heading models a processor can be constructed with.                 *)
(***************************************************************************)
GoodModel ==
    [loaded |-> TRUE, feature_names |-> TRUE, feature_names_attr |-> FALSE,
     predict_raises |-> FALSE, label_encoder |-> TRUE]

\* the old format: the bare model object, which carries its feature names
OldFormatModel ==
    [loaded |-> TRUE, feature_names |-> FALSE, feature_names_attr |-> TRUE,
     predict_raises |-> FALSE, label_encoder |-> FALSE]

\* a model without any feature schema
NoSchemaModel ==
    [loaded |-> TRUE, feature_names |-> FALSE, feature_names_attr |-> FALSE,
     predict_raises |-> FALSE, label_encoder |-> TRUE]

\* a model whose predict raises
RaisingModel ==
    [loaded |-> TRUE, feature_names |-> TRUE, feature_names_attr |-> FALSE,
     predict_raises |-> TRUE, label_encoder |-> TRUE]

Processors == {NoModel, GoodModel, OldFormatModel, NoSchemaModel, RaisingModel}

\* what a model predicts: the same class for every block (H1, None, Title, or
\* a class index the decoder does not know), or heading and body in turn
PredictKinds == {"h1", "none", "title", "unknown", "alternate"}

\* heading_model.predict(df) for n blocks: a model is a function of its input,
\* so the same model gives the same classes whenever it is given the same blocks
predict(hm, n) ==
    [i \in 1..n |->
        CASE hm.predicts = "h1" -> 0
          [] hm.predicts = "none" -> 3
          [] hm.predicts = "title" -> 4
          [] hm.predicts = "unknown" -> 5
          [] OTHER -> IF i % 2 = 0 THEN 1 ELSE 3]

\* the processors the system can be started with: a model that is loaded and
\* has a schema comes with what it predicts
SystemProcessors ==
    {SetField(hm, "predicts", "none") : hm \in {NoModel, NoSchemaModel, RaisingModel}}
    \cup {SetField(hm, "predicts", k) : hm \in {GoodModel, OldFormatModel}, k \in PredictKinds}

\* the texts a user selects
Queries == {<<"w">>, <<"w", " ", "w", "w">>}

NoArgs == [none |-> TRUE]

\* processing_progress as the module sets it when it is loaded
IdleProgress ==
    [is_processing |-> FALSE, total_files |-> 0, processed_files |-> 0,
     current_file |-> "", status |-> "idle"]

\* no /api/process request can be made
NoRuns == <<>>

\* a client that has no /api/process request under way
IdleRun == [pc |-> "idle", pdf_files |-> <<>>, i |-> 0, processed_files |-> <<>>]

NoRet == [raised |-> FALSE, value |-> <<>>]

(***************************************************************************)
(* The system: the processor, the two folders, and the operations of       *)
(* app.py on them.                                                         *)
(***************************************************************************)
Init ==
    /\ pdfs \in PdfFolders
    /\ json = <<>>
    /\ processor \in SystemProcessors
    /\ op = "init"
    /\ args = NoArgs
    /\ ret = NoRet
    /\ sections = <<>>
    /\ embedCalls = <<>>
    /\ processing_progress = IdleProgress
    /\ runs = [t \in {1} |-> IdleRun]

\* json.dump(json_data, f) to a file opened with 'a': a record already at the
\* path is kept and the sections of the new one are added to it
write_json_append(fs, path, data) ==
    [x \in DOMAIN fs \cup {path} |->
        IF x # path THEN fs[x]
        ELSE IF path \in DOMAIN fs
        THEN [data EXCEPT !.sections = fs[path].sections \o data.sections]
        ELSE data]

\* json.dump(json_data, f) to path: the file is created or replaced wholesale
write_json(fs, path, data) ==
    [x \in DOMAIN fs \cup {path} |-> IF x = path THEN data ELSE fs[x]]

\* the number of blocks extraction yields for a PDF (0 when it raises)
BlockCount(pdf) == Len(extract_features_from_pdf(pdf).value)

\* what processor.process_pdf(pdf_path) gives in the loop of process_files,
\* for every document, file name, processor and time of the model: the model
\* is asked for one prediction a block
process_file_result ==
    [pdf \in {PdfP, PdfQ, PdfR}, filename \in {FileNames[k] : k \in DOMAIN FileNames},
     hm \in SystemProcessors, now \in 1..MaxTime |->
        process_pdf(pdf, filename, hm, predict(hm, BlockCount(pdf)), now)]

\* get_uploaded_pdfs / get_processed_jsons: the sorted listing of a folder,
\* as indices into FileNames
RECURSIVE Listing(_, _, _)
Listing(names, present, k) ==
    IF k > Len(names) THEN <<>>
    ELSE IF names[k] \in present THEN <<k>> \o Listing(names, present, k + 1)
         ELSE Listing(names, present, k + 1)

get_uploaded_pdfs(pdf_folder) == Listing(FileNames, DOMAIN pdf_folder, 1)

get_processed_jsons(json_folder) == Listing(JsonPaths, DOMAIN json_folder, 1)

\* the processed_files list of the /api/similarity handler
RECURSIVE processed_files_info(_, _)
processed_files_info(json_files, pdf_files) ==
    IF json_files = <<>> THEN <<>>
    ELSE IF \E i \in 1..Len(pdf_files) : pdf_files[i] = Head(json_files)
         THEN <<FileInfo(Head(json_files))>> \o processed_files_info(Tail(json_files), pdf_files)
         ELSE processed_files_info(Tail(json_files), pdf_files)

\* the entry process_files adds to its processed_files list
ProcessedEntry(filename) ==
    [original_file |-> filename, json_file |-> JsonNames[IndexOfName(FileNames, filename)]]

\* process_files up to the loop: list the PDF folder and reset the progress
\* record; an empty folder is answered with 400
StartProcess(t) ==
    /\ runs[t].pc = "idle"
    /\ op' = "process_files"
    /\ args' = [run |-> t]
    /\ sections' = <<>>
    /\ embedCalls' = <<>>
    /\ UNCHANGED <<pdfs, json, processor>>
    /\ LET pdf_files == get_uploaded_pdfs(pdfs)
       IN IF pdf_files = <<>>
          THEN /\ ret' = [raised |-> FALSE, status |-> 400, value |-> <<>>]
               /\ UNCHANGED <<processing_progress, runs>>
          ELSE /\ ret' = NoRet
               /\ processing_progress' =
                     [is_processing |-> TRUE, total_files |-> Len(pdf_files),
                      processed_files |-> 0, current_file |-> "", status |-> "processing"]
               /\ runs' = [runs EXCEPT ![t] = [pc |-> "loop", pdf_files |-> pdf_files,
                                               i |-> 0, processed_files |-> <<>>]]

\* one iteration of the loop of process_files in which a failure is not
\* caught: it ends the request in the outer handler, with status 'error'
ProcessFileAborting(t) ==
    /\ runs[t].pc = "loop"
    /\ runs[t].i < Len(runs[t].pdf_files)
    /\ \E now \in 1..MaxTime :
       LET i == runs[t].i
           filename == FileNames[runs[t].pdf_files[i + 1]]
       IN \E r \in {process_file_result[pdfs[filename], filename, processor, now]} :
           /\ op' = "process_file"
           /\ args' = [run |-> t, filename |-> filename, now |-> now,
                       replaces |-> json_path_of(filename) \in DOMAIN json]
           /\ ret' = [raised |-> r.raised, value |-> r.value, strategy |-> r.strategy]
           /\ embedCalls' = r.embed_calls
           /\ sections' = <<>>
           /\ UNCHANGED <<pdfs, processor>>
           /\ IF r.raised
              THEN /\ json' = json
                   /\ processing_progress' =
                         [processing_progress EXCEPT !.current_file = filename,
                                                     !.is_processing = FALSE,
                                                     !.status = "error"]
                   /\ runs' = [runs EXCEPT ![t] = IdleRun]
              ELSE /\ json' = write_json(json, json_path_of(filename), r.value)
                   /\ processing_progress' =
                         [processing_progress EXCEPT !.current_file = filename,
                                                     !.processed_files = i + 1]
                   /\ runs' = [runs EXCEPT ![t].i = i + 1,
                                           ![t].processed_files =
                                               Append(@, ProcessedEntry(filename))]

\* one iteration of the loop of process_files: process the next PDF of the
\* listing and persist its index; a failure is caught and the file is skipped
ProcessFile(t) ==
    /\ runs[t].pc = "loop"
    /\ runs[t].i < Len(runs[t].pdf_files)
    /\ \E now \in 1..MaxTime :
       LET i == runs[t].i
           filename == FileNames[runs[t].pdf_files[i + 1]]
       IN \E r \in {process_file_result[pdfs[filename], filename, processor, now]} :
           /\ op' = "process_file"
           /\ args' = [run |-> t, filename |-> filename, now |-> now,
                       replaces |-> json_path_of(filename) \in DOMAIN json]
           /\ ret' = [raised |-> r.raised, value |-> r.value, strategy |-> r.strategy]
           /\ embedCalls' = r.embed_calls
           /\ sections' = <<>>
           /\ UNCHANGED <<pdfs, processor>>
           /\ IF r.raised
              THEN /\ json' = json
                   /\ processing_progress' =
                         [processing_progress EXCEPT !.current_file = filename]
                   /\ runs' = [runs EXCEPT ![t].i = i + 1]
              ELSE /\ json' = write_json(json, json_path_of(filename), r.value)
                   /\ processing_progress' =
                         [processing_progress EXCEPT !.current_file = filename,
                                                     !.processed_files = i + 1]
                   /\ runs' = [runs EXCEPT ![t].i = i + 1,
                                           ![t].processed_files =
                                               Append(@, ProcessedEntry(filename))]

\* process_files after the loop, leaving the name of the last file in the
\* progress record
FinishProcessKeepsFile(t) ==
    /\ runs[t].pc = "loop"
    /\ runs[t].i = Len(runs[t].pdf_files)
    /\ op' = "process_files_done"
    /\ args' = [run |-> t, pdf_files |-> runs[t].pdf_files]
    /\ ret' = [raised |-> FALSE, status |-> 200,
               value |-> [status |-> "completed",
                          processed_files |-> runs[t].processed_files]]
    /\ processing_progress' =
          [processing_progress EXCEPT !.is_processing = FALSE, !.status = "completed"]
    /\ runs' = [runs EXCEPT ![t] = IdleRun]
    /\ sections' = <<>>
    /\ embedCalls' = <<>>
    /\ UNCHANGED <<pdfs, json, processor>>

\* process_files after the loop: mark the progress record completed and
\* answer with the list of the files that were processed
FinishProcess(t) ==
    /\ runs[t].pc = "loop"
    /\ runs[t].i = Len(runs[t].pdf_files)
    /\ op' = "process_files_done"
    /\ args' = [run |-> t, pdf_files |-> runs[t].pdf_files]
    /\ ret' = [raised |-> FALSE, status |-> 200,
               value |-> [status |-> "completed",
                          processed_files |-> runs[t].processed_files]]
    /\ processing_progress' =
          [processing_progress EXCEPT !.is_processing = FALSE,
                                      !.status = "completed",
                                      !.current_file = ""]
    /\ runs' = [runs EXCEPT ![t] = IdleRun]
    /\ sections' = <<>>
    /\ embedCalls' = <<>>
    /\ UNCHANGED <<pdfs, json, processor>>

\* the /api/progress handler: the progress record and the percentage
GetProgress ==
    /\ op' = "get_progress"
    /\ args' = NoArgs
    /\ ret' = [raised |-> FALSE, status |-> 200,
               value |-> SetField(processing_progress, "percentage",
                                  IF processing_progress.total_files > 0
                                  THEN (processing_progress.processed_files * 100)
                                          \div processing_progress.total_files
                                  ELSE 0)]
    /\ sections' = <<>>
    /\ embedCalls' = <<>>
    /\ UNCHANGED <<pdfs, json, processor, processing_progress, runs>>

\* the default of top_n
DefaultTopN == 10

\* the /api/similarity handler: find_similar_sections with the default top_n
\* over every processed file, once every uploaded PDF has an index
ApiSimilarity ==
    \E selected_text \in Queries :
        LET pdf_files == get_uploaded_pdfs(pdfs)
            json_files == get_processed_jsons(json)
        IN /\ op' = "api_similarity"
           /\ args' = [selected_text |-> selected_text]
           /\ UNCHANGED <<pdfs, processor, processing_progress, runs>>
           /\ IF Len(pdf_files) # Len(json_files) \/ Len(pdf_files) = 0
              THEN /\ ret' = [raised |-> FALSE, value |-> <<>>, status |-> 400]
                   /\ sections' = <<>>
                   /\ embedCalls' = <<>>
                   /\ json' = json
              ELSE \E r \in {find_similar_sections_fast(
                                   selected_text,
                                   processed_files_info(json_files, pdf_files),
                                   json, DefaultTopN)} :
                      /\ ret' = [raised |-> r.raised, value |-> r.value,
                                 status |-> IF r.raised THEN 500 ELSE 200]
                      /\ sections' = r.sections
                      /\ embedCalls' = r.embed_calls
                      /\ json' = r.fs

Next ==
    \/ \E t \in DOMAIN runs : StartProcess(t)
    \/ \E t \in DOMAIN runs : ProcessFile(t)
    \/ \E t \in DOMAIN runs : FinishProcess(t)
    \/ GetProgress
    \/ ApiSimilarity

Spec == Init /\ [][Next]_vars

(***************************************************************************)
(* Batch runs on their own: two clients that post /api/process to the      *)
(* threaded server, whose requests are served by threads that interleave.  *)
(***************************************************************************)
Clients == {1, 2}

InitBatch ==
    /\ pdfs \in PdfFolders
    /\ json = <<>>
    /\ processor \in SystemProcessors
    /\ op = "init"
    /\ args = NoArgs
    /\ ret = NoRet
    /\ sections = <<>>
    /\ embedCalls = <<>>
    /\ processing_progress = IdleProgress
    /\ runs = [t \in Clients |-> IdleRun]

NextBatch ==
    \/ \E t \in DOMAIN runs : StartProcess(t)
    \/ \E t \in DOMAIN runs : ProcessFile(t)
    \/ \E t \in DOMAIN runs : FinishProcess(t)
    \/ GetProgress

SpecBatch == InitBatch /\ [][NextBatch]_vars

\* one client's batch runs with a request handler that runs on: the thread
\* that serves /api/process is not stopped for ever between two steps of
\* process_files, while /api/progress may be polled at any time
SpecFair ==
    /\ Init
    /\ [][NextBatch]_vars
    /\ WF_vars(ProcessFile(1))
    /\ WF_vars(FinishProcess(1))

(***************************************************************************)
(* The search engine on its own: any list of document indices, any top_n,  *)
(* over JSON folders of every shape the loader distinguishes.              *)
(***************************************************************************)
\* n words separated by a space and a newline, after a leading space
Messy(n) == <<" ">> \o Rep(n, <<"w", " ", "\n">>)

Sec(title, page, level, content, emb) ==
    [section_title |-> title, page_number |-> page, level |-> level, content |-> content,
     embedding |-> emb, section_text |-> title \o <<".", " ">> \o content]

\* an index record as process_pdf builds it around a list of sections
MkIndex(name, secs) ==
    LET full_text == JoinSpace([i \in 1..Len(secs) |-> secs[i].content])
    IN [title |-> <<"T">>,
        outline |-> [i \in 1..Len(secs) |->
                        [level |-> secs[i].level, text |-> secs[i].section_title,
                         page |-> secs[i].page_number]],
        metadata |-> [filename |-> name, processed_at |-> 1, total_blocks |-> Len(secs),
                      total_sections |-> Len(secs), model_used |-> "heuristic"],
        sections |-> secs,
        full_text |-> full_text,
        full_text_embedding |-> Encode(full_text)]

\* an index written before sections were precomputed: no 'sections' field
NoSectionsDoc == [title |-> <<"T">>, outline |-> <<>>]

\* an index whose only section has no 'embedding' field
BadSectionDoc ==
    [title |-> <<"T">>, outline |-> <<>>,
     sections |-> <<[section_title |-> <<"C">>, page_number |-> 1, level |-> "H1",
                     content |-> WordsText(16)]>>]

DocsA ==
    {MkIndex("a.pdf", <<Sec(<<"A">>, 1, "H1", c1, e1), Sec(<<"B">>, 2, "H2", c2, e2)>>) :
        c1 \in {WordsText(14), WordsText(15), Messy(15), WordsText(101)},
        e1 \in {<<1, 0>>, <<3, 4>>},
        c2 \in {WordsText(16), Messy(14)}, e2 \in {<<1, 0>>, <<0, 0>>}}

DocsB ==
    {NoSectionsDoc, BadSectionDoc, MkIndex("b.pdf", <<>>),
     MkIndex("b.pdf", <<Sec(<<"C">>, 1, "H1", WordsText(16), <<1, 0>>)>>)}

\* the JSON folders: a.json and b.json exist, c.json does not
Corpora ==
    {[x \in {"json/a.json", "json/b.json"} |-> IF x = "json/a.json" THEN a ELSE b] :
        a \in DocsA, b \in DocsB}

\* lists of at most n of the entries a, b, c, none of them twice
RECURSIVE FileListsUpTo(_)
FileListsUpTo(n) ==
    IF n = 0 THEN {<<>>}
    ELSE FileListsUpTo(n - 1)
         \cup {Append(l, FileInfo(k)) :
                 l \in {m \in FileListsUpTo(n - 1) : Len(m) = n - 1}, k \in 1..3}

NoRepeat(l) == \A i, j \in 1..Len(l) : i # j => l[i] # l[j]

FileLists == {l \in FileListsUpTo(MaxFiles) : NoRepeat(l)}

\* the calls a client can make: the arguments of one search
SearchCalls ==
    [text : Queries, processed_files : FileLists, top_n : 0..MaxTopN]

\* a JSON folder and a pending call (args), not yet made
InitSearch ==
    /\ pdfs = <<>>
    /\ json \in Corpora
    /\ processor = NoModel
    /\ op = "init"
    /\ args \in SearchCalls
    /\ ret = NoRet
    /\ sections = <<>>
    /\ embedCalls = <<>>
    /\ processing_progress = IdleProgress
    /\ runs = NoRuns

\* the pending call made to find_similar_sections_fast
SearchFast ==
    \E r \in {find_similar_sections_fast(args.text, args.processed_files, json, args.top_n)} :
        /\ op' = "find_similar_sections_fast"
        /\ ret' = [raised |-> r.raised, value |-> r.value]
        /\ sections' = r.sections
        /\ embedCalls' = r.embed_calls
        /\ json' = r.fs
        /\ UNCHANGED <<pdfs, processor, args, processing_progress, runs>>

\* the pending call made to search_across_all_documents
SearchAll ==
    \E r \in {search_across_all_documents(args.text, args.processed_files, json, args.top_n)} :
        /\ op' = "search_across_all_documents"
        /\ ret' = [raised |-> r.raised, value |-> r.value]
        /\ sections' = r.sections
        /\ embedCalls' = r.embed_calls
        /\ json' = r.fs
        /\ UNCHANGED <<pdfs, processor, args, processing_progress, runs>>

NextSearch == SearchFast \/ SearchAll

SpecSearch == InitSearch /\ [][NextSearch]_vars

(***************************************************************************)
(* The heading classifier on its own: any feature sequence of at most      *)
(* MaxBlocks blocks, any processor, any prediction of the model.           *)
(***************************************************************************)
\* the text of the i-th block of a feature sequence
TextOf(i) == IF i = 1 THEN <<"A">> ELSE IF i = 2 THEN <<"B">> ELSE IF i = 3 THEN <<"C">>
             ELSE <<"A", "b">>

Feature(page_no, y, ratio, is_bold, num_words) ==
    [font_size_relative_to_max_pdf |-> Frac(ratio, 100),
     font_size_relative_to_max_page |-> Frac(ratio, 100),
     is_bold |-> is_bold,
     num_words |-> num_words,
     y_pos_relative |-> Frac(y, 100),
     page_no |-> page_no,
     is_underlined |-> FALSE]

\* the blocks a feature sequence is made of: two large lines at the top of the
\* first page, a bold heading, a bold line at the same place whose ratio is
\* exactly 0.8 and that has exactly 10 words, a large line at the top of the
\* second page, a small heading and a body paragraph
BlockKinds ==
    {Feature(0, 5, 95, FALSE, 3), Feature(0, 8, 100, TRUE, 2), Feature(0, 30, 85, TRUE, 8),
     Feature(0, 30, 80, TRUE, 10),
     Feature(1, 5, 95, FALSE, 12), Feature(1, 40, 55, FALSE, 18), Feature(0, 50, 50, FALSE, 30)}

RECURSIVE SeqsUpTo(_, _)
SeqsUpTo(S, n) ==
    IF n = 0 THEN {<<>>}
    ELSE SeqsUpTo(S, n - 1)
         \cup {Append(l, x) : l \in {m \in SeqsUpTo(S, n - 1) : Len(m) = n - 1}, x \in S}

\* the feature sequences: the i-th block carries the text TextOf(i)
FeatureSeqs ==
    {[i \in 1..Len(ks) |-> SetField(ks[i], "text", TextOf(i))] : ks \in SeqsUpTo(BlockKinds, MaxBlocks)}

\* the class indices predict can return for n blocks: H1, H2, None, Title, and
\* an index the decoder does not know
AllPredictions(hm, n) == IF hm.loaded /\ n > 0 THEN [1..n -> {0, 1, 3, 4, 5}] ELSE {<<>>}

\* a processor and a pending call: a feature sequence, and what the model
\* predicts for it
InitClassify ==
    /\ pdfs = <<>>
    /\ json = <<>>
    /\ processor \in Processors
    /\ op = "init"
    /\ \E input_data \in FeatureSeqs :
       \E predictions \in AllPredictions(processor, Len(input_data)) :
           args = [input_data |-> input_data, predictions |-> predictions]
    /\ ret = NoRet
    /\ sections = <<>>
    /\ embedCalls = <<>>
    /\ processing_progress = IdleProgress
    /\ runs = NoRuns

\* the pending call made to predict_headings_simple
PredictSimple ==
    /\ op' = "predict_headings_simple"
    /\ ret' = [raised |-> FALSE, value |-> predict_headings_simple(args.input_data),
               strategy |-> "heuristic"]
    /\ UNCHANGED <<pdfs, json, processor, args, sections, embedCalls,
                   processing_progress, runs>>

\* the pending call made to predict_headings_with_model
PredictWithModel ==
    /\ op' = "predict_headings_with_model"
    /\ ret' = predict_headings_with_model(processor, args.input_data, args.predictions)
    /\ UNCHANGED <<pdfs, json, processor, args, sections, embedCalls,
                   processing_progress, runs>>

NextClassify == PredictSimple \/ PredictWithModel

SpecClassify == InitClassify /\ [][NextClassify]_vars

(***************************************************************************)
(* smart_join_lines on its own: any block of at most MaxLines lines.       *)
(***************************************************************************)
\* the lines of a block as extraction keeps them (none is empty or blank):
\* bare, or with a space or a tab at one end
LineKinds == {<<"a">>, <<"a", " ">>, <<" ", "a">>, <<"a", "\t">>, <<"\t", "a">>}

LineSeqs == SeqsUpTo(LineKinds, MaxLines) \ {<<>>}

InitJoin ==
    /\ pdfs = <<>>
    /\ json = <<>>
    /\ processor = NoModel
    /\ op = "init"
    /\ args \in {[lines |-> lines] : lines \in LineSeqs}
    /\ ret = NoRet
    /\ sections = <<>>
    /\ embedCalls = <<>>
    /\ processing_progress = IdleProgress
    /\ runs = NoRuns

\* the pending call made to smart_join_lines
SmartJoin ==
    /\ op' = "smart_join_lines"
    /\ ret' = [raised |-> FALSE, value |-> smart_join_lines(args.lines)]
    /\ UNCHANGED <<pdfs, json, processor, args, sections, embedCalls,
                   processing_progress, runs>>

NextJoin == SmartJoin

SpecJoin == InitJoin /\ [][NextJoin]_vars

(***************************************************************************)
(* Section segmentation on its own: any document of two pages and at most  *)
(* MaxDocLines lines, any outline of one or two entries.                   *)
(***************************************************************************)
\* the lines of a document: the heading "A", a line that contains "a" and
\* ends with a space, the heading "B", a body line, and a body line that
\* starts with a space
DocLineKinds == {<<"A">>, <<"x", "a", " ">>, <<"B">>, <<"w">>, <<" ", "w">>}

\* a page whose blocks are the given lines, one block of one span per line
LinesPage(lines) ==
    Page([k \in 1..Len(lines) |-> Block(10 * k, lines[k], 10, 0)])

\* the documents: the lines, broken into two pages after line k
SegmentDocs ==
    UNION {{[readable |-> TRUE,
             pages |-> <<LinesPage(SubSeq(lines, 1, k)),
                         LinesPage(SubSeq(lines, k + 1, Len(lines)))>>] :
               k \in 0..Len(lines)} :
           lines \in SeqsUpTo(DocLineKinds, MaxDocLines)}

HeadingEntry(text, page) == [level |-> "H1", text |-> text, page |-> page]

\* the outlines: one or two entries with the heading texts "A" and "B" on
\* pages that do not decrease
Outlines ==
    {<<HeadingEntry(t, pg)>> : t \in {<<"A">>, <<"B">>}, pg \in 1..2}
    \cup {<<HeadingEntry(t[1], pg[1]), HeadingEntry(t[2], pg[2])>> :
            t \in {<<"A">>, <<"B">>} \X {<<"A">>, <<"B">>},
            pg \in {<<1, 1>>, <<1, 2>>, <<2, 2>>}}

\* a document and a pending call: an outline, and the entry to extract
InitSegment ==
    /\ pdfs \in {[x \in {"d.pdf"} |-> d] : d \in SegmentDocs}
    /\ json = <<>>
    /\ processor = NoModel
    /\ op = "init"
    /\ \E outline \in Outlines : \E i \in 1..Len(outline) :
          args = [outline |-> outline, i |-> i]
    /\ ret = NoRet
    /\ sections = <<>>
    /\ embedCalls = <<>>
    /\ processing_progress = IdleProgress
    /\ runs = NoRuns

\* the pending call made to extract_text_for_heading
ExtractText ==
    /\ op' = "extract_text_for_heading"
    /\ ret' = [raised |-> FALSE,
               value |-> extract_text_for_heading(pdfs["d.pdf"], args.outline, args.i)]
    /\ UNCHANGED <<pdfs, json, processor, args, sections, embedCalls,
                   processing_progress, runs>>

NextSegment == ExtractText

SpecSegment == InitSegment /\ [][NextSegment]_vars

(***************************************************************************)
(* Feature extraction on its own: any one-page document of one block of    *)
(* one or two lines, each line of at most MaxSpans spans of any style.     *)
(***************************************************************************)
\* the style flags of a span: plain, underlined (4), bold (16), both
StyleFlags == {0, 4, 16, 20}

\* the lines of a block: one to MaxSpans spans of text "a", each of a style
SpanLines ==
    {[spans |-> [k \in 1..Len(fs) |-> Span(<<"a">>, 10, fs[k])]] :
        fs \in SeqsUpTo(StyleFlags, MaxSpans) \ {<<>>}}

\* the documents: one page with one text block of one or two lines
ExtractDocs ==
    {[readable |-> TRUE,
      pages |-> <<Page(<<[type |-> 0, bbox |-> <<10, 20, 90, 30>>, lines |-> lines]>>)>>] :
        lines \in {<<l>> : l \in SpanLines} \cup {<<l, m>> : l, m \in SpanLines}}

InitExtract ==
    /\ pdfs \in {[x \in {"d.pdf"} |-> d] : d \in ExtractDocs}
    /\ json = <<>>
    /\ processor = NoModel
    /\ op = "init"
    /\ args = NoArgs
    /\ ret = NoRet
    /\ sections = <<>>
    /\ embedCalls = <<>>
    /\ processing_progress = IdleProgress
    /\ runs = NoRuns

\* extract_features_from_pdf called with the document
ExtractFeatures ==
    /\ op' = "extract_features_from_pdf"
    /\ ret' = extract_features_from_pdf(pdfs["d.pdf"])
    /\ UNCHANGED <<pdfs, json, processor, args, sections, embedCalls,
                   processing_progress, runs>>

NextExtract == ExtractFeatures

SpecExtract == InitExtract /\ [][NextExtract]_vars

(***************************************************************************)
(* Properties of the search engine (checked under SpecSearch).             *)
(***************************************************************************)
SearchOps == {"find_similar_sections_fast", "search_across_all_documents"}

\* the last operation was a search and it returned a list
SearchReturned == op \in SearchOps /\ ~ret.raised

\* the rank field of a result, whatever the entry point names it
RankOf(r) == IF Has(r, "rank") THEN r.rank ELSE r.importance_rank

\* the number of non-empty whitespace-separated tokens of a text: the
\* positions where a token starts
WordStarts(t) ==
    Cardinality({i \in 1..Len(t) :
                    t[i] \notin Whitespace /\ (i = 1 \/ t[i - 1] \in Whitespace)})

\* the supplied indices that exist and have a 'sections' field
LoadableFiles ==
    {f \in 1..Len(args.processed_files) :
        /\ args.processed_files[f].json_path \in DOMAIN json
        /\ "sections" \in DOMAIN json[args.processed_files[f].json_path]}

\* the candidate sections of the pending call, read from the folder: <<f, k>>
\* is section k of the f-th supplied index
CandidateKeys ==
    UNION {{<<f, k>> : k \in 1..Len(json[args.processed_files[f].json_path].sections)} :
              f \in LoadableFiles}

CandSection(key) == json[args.processed_files[key[1]].json_path].sections[key[2]]

\* key is the candidate a result entry was made from
IsKeyOf(key, r) ==
    /\ args.processed_files[key[1]].original_file = r.document
    /\ CandSection(key).section_title = r.section_title

KeyOf(r) == CHOOSE key \in CandidateKeys : IsKeyOf(key, r)

\* traversal order: the order of the supplied indices, then of their sections
KeyBefore(a, b) == a[1] < b[1] \/ (a[1] = b[1] /\ a[2] < b[2])

\* the candidates whose content has at least 15 words
Qualifying == {key \in CandidateKeys : WordStarts(CandSection(key).content) >= 15}

\* C1: every result a search returns is made from a candidate section whose
\* content has at least 15 whitespace-separated words, and carries that count
C1_FilterInvariant ==
    SearchReturned =>
        \A i \in 1..Len(ret.value) :
            /\ \E key \in CandidateKeys : IsKeyOf(key, ret.value[i])
            /\ KeyOf(ret.value[i]) \in Qualifying
            /\ ret.value[i].word_count = WordStarts(CandSection(KeyOf(ret.value[i])).content)

\* a search returned a result although a candidate of fewer than 15 words
\* scored strictly higher than it
C1_Witness ==
    /\ SearchReturned
    /\ ret.value # <<>>
    /\ \E k \in 1..Len(sections) :
          /\ WordStarts(sections[k].content) < 15
          /\ sections[k].similarity_score > ret.value[1].similarity_score

\* C2: of two returned results the one with the higher score has the lower
\* rank, and results of equal score appear in traversal order
C2_RankingMonotone ==
    SearchReturned =>
        \A i, j \in 1..Len(ret.value) :
            /\ ret.value[i].similarity_score > ret.value[j].similarity_score
                  => RankOf(ret.value[i]) < RankOf(ret.value[j])
            /\ (/\ ret.value[i].similarity_score = ret.value[j].similarity_score
                /\ KeyBefore(KeyOf(ret.value[i]), KeyOf(ret.value[j])))
                  => i < j

\* a search returned two results of equal score from different documents ahead
\* of a third of lower score
C2_Witness ==
    /\ SearchReturned
    /\ Len(ret.value) >= 3
    /\ ret.value[1].similarity_score = ret.value[2].similarity_score
    /\ ret.value[1].document # ret.value[2].document
    /\ ret.value[2].similarity_score > ret.value[3].similarity_score

\* C3: a search returns exactly min(top_n, q) results, q the number of
\* candidate sections of at least 15 words
C3_ExactCount ==
    SearchReturned => Len(ret.value) = Min(args.top_n, Cardinality(Qualifying))

\* C4: the i-th returned result carries rank i
C4_DenseRanks ==
    SearchReturned => \A i \in 1..Len(ret.value) : RankOf(ret.value[i]) = i

\* a search returned two results, and a candidate that the filter skipped
\* scored strictly higher than the second of them
C4_Witness ==
    /\ SearchReturned
    /\ Len(ret.value) >= 2
    /\ \E k \in 1..Len(sections) :
          /\ WordStarts(sections[k].content) < 15
          /\ sections[k].similarity_score > ret.value[2].similarity_score

\* C5: a search with no candidate section returns the empty list and does not
\* raise
C5_EmptyCorpus ==
    (op \in SearchOps /\ CandidateKeys = {}) => (~ret.raised /\ ret.value = <<>>)

\* a search over a missing index and an index without sections returned
C5_Witness ==
    /\ op \in SearchOps
    /\ CandidateKeys = {}
    /\ \E i \in 1..Len(args.processed_files) :
          args.processed_files[i].json_path \notin DOMAIN json
    /\ \E i \in 1..Len(args.processed_files) :
          /\ args.processed_files[i].json_path \in DOMAIN json
          /\ "sections" \notin DOMAIN json[args.processed_files[i].json_path]
    /\ ~ret.raised

\* the sections persisted in the folder carry neither of the fields a search
\* attaches
PersistedClean(fs) ==
    \A path \in DOMAIN fs :
        "sections" \in DOMAIN fs[path] =>
            \A k \in 1..Len(fs[path].sections) :
                /\ "similarity_score" \notin DOMAIN fs[path].sections[k]
                /\ "document" \notin DOMAIN fs[path].sections[k]

\* C6: a search step leaves every persisted index as it was; the document and
\* similarity_score fields are on the in-memory sections only
C6_IndicesUnchanged ==
    [][op' \in SearchOps =>
          /\ json' = json
          /\ PersistedClean(json')
          /\ \A k \in 1..Len(sections') : "document" \in DOMAIN sections'[k]
          /\ ~ret'.raised =>
                \A k \in 1..Len(sections') : "similarity_score" \in DOMAIN sections'[k]]_vars

\* a search scored two or more in-memory sections, and the folder holds none
\* of the attached fields
C6_Witness ==
    /\ SearchReturned
    /\ Len(sections) >= 2
    /\ \A k \in 1..Len(sections) :
          "similarity_score" \in DOMAIN sections[k] /\ "document" \in DOMAIN sections[k]
    /\ PersistedClean(json)

(***************************************************************************)
(* Properties of the system (checked under Spec).                          *)
(***************************************************************************)
\* C7: a search embeds at most one text, the query; building an index embeds
\* the text of each retained section once, in order, and then the full text
C7_EmbedOncePerQuery ==
    /\ op = "api_similarity" =>
          /\ Len(embedCalls) <= 1
          /\ \A i \in 1..Len(embedCalls) : embedCalls[i] = args.selected_text
    /\ (op = "process_file" /\ ~ret.raised) =>
          embedCalls = [i \in 1..Len(ret.value.sections) |->
                           ret.value.sections[i].section_text]
                       \o <<ret.value.full_text>>

\* a search over two or more stored sections made one embed call
C7_Witness ==
    /\ op = "api_similarity"
    /\ ~ret.raised
    /\ Len(sections) >= 2
    /\ ret.value # <<>>
    /\ embedCalls = <<args.selected_text>>

\* C9: model_used of a built index names the strategy that produced its outline
C9_ModelUsedIsStrategy ==
    (op = "process_file" /\ ~ret.raised) => ret.value.metadata.model_used = ret.strategy

(***************************************************************************)
(* Properties of the heading classifier (checked under SpecClassify).      *)
(***************************************************************************)
\* the model strategy fails on the pending call: no feature schema, predict
\* raises, or a predicted class cannot be decoded
ModelFailed ==
    /\ processor.loaded
    /\ \/ ~processor.feature_names /\ ~processor.feature_names_attr
       \/ processor.predict_raises
       \/ \E i \in 1..Len(args.predictions) : args.predictions[i] \notin 0..4

\* C8: when the model strategy fails, predict_headings_with_model does not
\* raise and returns what predict_headings_simple returns for the same input
C8_SilentFallback ==
    (op = "predict_headings_with_model" /\ ModelFailed) =>
        /\ ~ret.raised
        /\ ret.value = predict_headings_simple(args.input_data)

\* a loaded model with a schema predicted a class that cannot be decoded, and
\* the call returned a non-empty outline
C8_Witness ==
    /\ op = "predict_headings_with_model"
    /\ processor = GoodModel
    /\ \E i \in 1..Len(args.predictions) : args.predictions[i] \notin 0..4
    /\ \E i \in 1..Len(args.predictions) : args.predictions[i] = 4
    /\ ~ret.raised
    /\ ret.value.outline # <<>>

\* the blocks of the pending call that satisfy the title condition
TitleCandidates ==
    {i \in 1..Len(args.input_data) :
        /\ args.input_data[i].page_no = 0
        /\ args.input_data[i].y_pos_relative.n * 10 < args.input_data[i].y_pos_relative.d
        /\ args.input_data[i].font_size_relative_to_max_pdf.n * 10
              > 9 * args.input_data[i].font_size_relative_to_max_pdf.d}

\* the first title candidate in reading order: the smallest y, then block order
FirstCandidate ==
    CHOOSE i \in TitleCandidates :
        \A j \in TitleCandidates :
            \/ FracLT(args.input_data[i].y_pos_relative,
                      args.input_data[j].y_pos_relative.n, args.input_data[j].y_pos_relative.d)
            \/ /\ args.input_data[i].y_pos_relative.n * args.input_data[j].y_pos_relative.d
                    = args.input_data[j].y_pos_relative.n * args.input_data[i].y_pos_relative.d
               /\ i <= j

\* C10: with several title candidates the heuristic title is the text of the
\* first of them in reading order
C10_FirstTitleWins ==
    (op = "predict_headings_simple" /\ Cardinality(TitleCandidates) >= 2) =>
        ret.value.title = args.input_data[FirstCandidate].text

\* the block of the pending call an outline entry was made from
BlockOf(e) == CHOOSE i \in 1..Len(args.input_data) : args.input_data[i].text = e.text

\* the level the rules of the heuristic strategy give block i, the first
\* matching rule deciding
RuleLevel(i) ==
    LET b == args.input_data[i]
        r == b.font_size_relative_to_max_pdf
    IN IF r.n * 10 > 8 * r.d /\ b.is_bold /\ b.num_words <= 10 THEN "H1"
       ELSE IF r.n * 10 > 6 * r.d /\ (b.is_bold \/ b.num_words <= 15) THEN "H2"
       ELSE IF r.n * 10 > 5 * r.d /\ b.num_words <= 20 THEN "H3"
       ELSE "None"

\* the blocks of the pending call the heuristic strategy puts in the outline
Labelled ==
    {i \in 1..Len(args.input_data) : i \notin TitleCandidates /\ RuleLevel(i) # "None"}

\* C11: under the heuristic strategy a block that is not taken as the title
\* appears in the outline iff a rule gives it H1, H2 or H3, once, with the
\* level of the first matching rule, its text and its page index + 1
C11_HeuristicRules ==
    op = "predict_headings_simple" =>
        /\ Len(ret.value.outline) = Cardinality(Labelled)
        /\ \A i \in Labelled :
              \E n \in 1..Len(ret.value.outline) :
                  ret.value.outline[n] = [level |-> RuleLevel(i),
                                          text |-> args.input_data[i].text,
                                          page |-> args.input_data[i].page_no + 1]

\* the heuristic strategy returned an outline with an H1 and another level
C11_Witness ==
    /\ op = "predict_headings_simple"
    /\ \E n \in 1..Len(ret.value.outline) : ret.value.outline[n].level = "H1"
    /\ \E n \in 1..Len(ret.value.outline) : ret.value.outline[n].level \in {"H2", "H3"}

\* block i comes before block j in reading order: (page, y) ascending, the
\* original block order among equal keys
ReadsBefore(i, j) ==
    LET a == args.input_data[i]
        b == args.input_data[j]
    IN \/ a.page_no < b.page_no
       \/ /\ a.page_no = b.page_no
          /\ a.y_pos_relative.n * b.y_pos_relative.d < b.y_pos_relative.n * a.y_pos_relative.d
       \/ /\ a.page_no = b.page_no
          /\ a.y_pos_relative.n * b.y_pos_relative.d = b.y_pos_relative.n * a.y_pos_relative.d
          /\ i < j

\* C12: the outline of the heuristic strategy is in reading order, blocks of
\* equal (page, y) keep their block order, and no title block is in it
C12_OutlineOrdered ==
    op = "predict_headings_simple" =>
        /\ \A m, n \in 1..Len(ret.value.outline) :
              m < n => ReadsBefore(BlockOf(ret.value.outline[m]), BlockOf(ret.value.outline[n]))
        /\ \A n \in 1..Len(ret.value.outline) :
              BlockOf(ret.value.outline[n]) \notin TitleCandidates

\* the heuristic strategy returned an outline of two blocks that were given
\* in the opposite of reading order
C12_Witness ==
    /\ op = "predict_headings_simple"
    /\ Len(ret.value.outline) = 2
    /\ BlockOf(ret.value.outline[1]) > BlockOf(ret.value.outline[2])

\* the label the model gave block i of the pending call
LabelOf(i) == CLASS_NAMES[args.predictions[i] + 1]

\* the model strategy ran to its end on the pending call
ModelSucceeded ==
    /\ op = "predict_headings_with_model"
    /\ processor.loaded
    /\ ~ModelFailed
    /\ args.input_data # <<>>

TitleBlocks == {i \in 1..Len(args.input_data) : LabelOf(i) = "Title"}

OutlineBlocks == {i \in 1..Len(args.input_data) : LabelOf(i) \notin {"Title", "None"}}

\* the n-th block of a set of blocks in block order
NthOf(K, n) == CHOOSE i \in K : Cardinality({j \in K : j < i}) = n - 1

\* C13: under the model strategy the title is the texts of the blocks
\* labelled Title joined by spaces in block order, and the outline has one
\* entry for each block labelled neither Title nor None, in block order, with
\* the label, the text and the page index + 1
C13_ModelOutline ==
    ModelSucceeded =>
        /\ ret.value.title =
              JoinSpace([n \in 1..Cardinality(TitleBlocks) |->
                            args.input_data[NthOf(TitleBlocks, n)].text])
        /\ Len(ret.value.outline) = Cardinality(OutlineBlocks)
        /\ \A n \in 1..Len(ret.value.outline) :
              LET i == NthOf(OutlineBlocks, n)
              IN ret.value.outline[n] = [level |-> LabelOf(i),
                                         text |-> args.input_data[i].text,
                                         page |-> args.input_data[i].page_no + 1]

\* the model labelled two blocks as headings of different levels
C13_Witness ==
    /\ ModelSucceeded
    /\ Len(ret.value.outline) = 2
    /\ ret.value.outline[1].level # ret.value.outline[2].level

(***************************************************************************)
(* Properties of smart_join_lines (checked under SpecJoin).                *)
(***************************************************************************)
\* the lines joined so that a single space stands at a join exactly when
\* neither side of the join carries whitespace there
RECURSIVE SpacedJoin(_, _)
SpacedJoin(acc, lines) ==
    IF lines = <<>> THEN acc
    ELSE LET line == Head(lines)
             bare == /\ acc # <<>> => acc[Len(acc)] \notin Whitespace
                     /\ line # <<>> => Head(line) \notin Whitespace
         IN SpacedJoin(acc \o (IF bare THEN <<" ">> ELSE <<>>) \o line, Tail(lines))

\* C20: smart_join_lines returns the lines joined with exactly one space at
\* each join where neither side carries whitespace and nothing at the others
C20_SpacingAwareJoin ==
    op = "smart_join_lines" =>
        ret.value = Strip(SpacedJoin(Head(args.lines), Tail(args.lines)))

(***************************************************************************)
(* Properties of section segmentation (checked under SpecSegment).         *)
(***************************************************************************)
\* the lines of the page window of the pending call: the pages from the
\* entry's page through the next entry's page, or through the last page
Window ==
    LET pdf == pdfs["d.pdf"]
        first == args.outline[args.i].page
        last == IF args.i < Len(args.outline) THEN args.outline[args.i + 1].page
                ELSE Len(pdf.pages)
    IN Flatten([k \in 1..(last - first + 1) |->
           Flatten([b \in 1..Len(pdf.pages[first + k - 1].blocks) |->
               [l \in 1..Len(pdf.pages[first + k - 1].blocks[b].lines) |->
                   LineText(pdf.pages[first + k - 1].blocks[b].lines[l])]])])

\* line n of the window contains the text t, whatever the case of the letters
Mentions(n, t) == Contains(Lower(Window[n]), Lower(t))

\* the lines of the window that mention the heading of the pending call
HeadingLines == {n \in 1..Len(Window) : Mentions(n, args.outline[args.i].text)}

FirstHeadingLine == CHOOSE n \in HeadingLines : \A m \in HeadingLines : n <= m

\* the lines after the heading line that mention the next heading
NextLines ==
    IF args.i < Len(args.outline) /\ HeadingLines # {}
    THEN {n \in (FirstHeadingLine + 1)..Len(Window) :
             Mentions(n, args.outline[args.i + 1].text)}
    ELSE {}

\* the lines strictly after the first heading line and strictly before the
\* first later line that mentions the next heading
Between ==
    IF HeadingLines = {} THEN <<>>
    ELSE LET stop == IF NextLines = {} THEN Len(Window) + 1
                     ELSE CHOOSE n \in NextLines : \A m \in NextLines : n <= m
         IN SubSeq(Window, FirstHeadingLine + 1, stop - 1)

\* C14 as stated: the extracted content is exactly the lines between the two
\* heading lines joined by spaces
C14_ContentExact ==
    op = "extract_text_for_heading" => ret.value = JoinSpace(Between)

\* C14 as amended: the extracted content is the lines between the two heading
\* lines joined by spaces, without leading and trailing whitespace
C14_ContentStripped ==
    op = "extract_text_for_heading" => ret.value = Strip(JoinSpace(Between))

\* two entries with the same heading text: the content of the first one ends
\* at the next line with that text, after a line of body
C14_Witness ==
    /\ op = "extract_text_for_heading"
    /\ Len(args.outline) = 2
    /\ args.i = 1
    /\ args.outline[1].text = args.outline[2].text
    /\ NextLines # {}
    /\ ret.value # <<>>

(***************************************************************************)
(* Properties of index building and of batch runs (checked under Spec and  *)
(* under SpecBatch).                                                       *)
(***************************************************************************)
\* the outline entries of the index just built whose extracted content is not
\* empty
EntriesWithContent ==
    {i \in 1..Len(ret.value.outline) :
        extract_text_for_heading(pdfs[args.filename], ret.value.outline, i) # <<>>}

\* C15: the sections of a built index are the outline entries with non-empty
\* content, one section each, in outline order; an entry without content
\* raises nothing, and total_sections is the number of sections
C15_SectionsOfOutline ==
    (op = "process_file" /\ ~ret.raised) =>
        /\ Len(ret.value.sections) = Cardinality(EntriesWithContent)
        /\ \A n \in 1..Len(ret.value.sections) :
              LET i == NthOf(EntriesWithContent, n)
              IN /\ ret.value.sections[n].section_title = ret.value.outline[i].text
                 /\ ret.value.sections[n].page_number = ret.value.outline[i].page
                 /\ ret.value.sections[n].level = ret.value.outline[i].level
                 /\ ret.value.sections[n].content # <<>>
        /\ ret.value.metadata.total_sections = Len(ret.value.sections)
        /\ ret.value.metadata.total_sections <= Len(ret.value.outline)

\* a readable PDF was processed without an error and its outline has an entry
\* with content and an entry without
C15_Witness ==
    /\ op = "process_file"
    /\ ~ret.raised
    /\ ret.value.sections # <<>>
    /\ Len(ret.value.sections) < Len(ret.value.outline)

\* processing the PDF of this name fails
Fails(filename) == ~pdfs[filename].readable

\* C16: a document that fails is skipped and its run goes on with the next
\* one; a batch run answers 'completed' with one entry, in list order, for
\* each PDF of its listing whose processing does not fail, and the index of
\* each of them is in the JSON folder
C16_FailureIsolated ==
    /\ processing_progress.status # "error"
    /\ (op = "process_file" /\ ret.raised) =>
          /\ runs[args.run].pc = "loop"
          /\ FileNames[runs[args.run].pdf_files[runs[args.run].i]] = args.filename
    /\ op = "process_files_done" =>
        LET done == ret.value.processed_files
            ok == {k \in 1..Len(args.pdf_files) : ~Fails(FileNames[args.pdf_files[k]])}
        IN /\ ret.value.status = "completed"
           /\ Len(done) = Cardinality(ok)
           /\ \A n \in 1..Len(done) :
                 LET filename == FileNames[args.pdf_files[NthOf(ok, n)]]
                 IN /\ done[n].original_file = filename
                    /\ json_path_of(filename) \in DOMAIN json
                    /\ json[json_path_of(filename)].metadata.filename = filename

\* a batch run over a PDF that fails and a PDF that does not has finished
C16_Witness ==
    /\ op = "process_files_done"
    /\ Len(args.pdf_files) = 2
    /\ Len(ret.value.processed_files) = 1
    /\ Fails(FileNames[args.pdf_files[1]])

\* C17: during a batch run the progress counter is the number of documents of
\* the run processed successfully so far, and at the end of the run it is the
\* length of the returned processed_files list
C17_CounterCountsSuccesses ==
    /\ \A t \in DOMAIN runs :
          runs[t].pc = "loop" =>
              processing_progress.processed_files = Len(runs[t].processed_files)
    /\ op = "process_files_done" =>
          processing_progress.processed_files = Len(ret.value.processed_files)

\* C18: while a batch run is in progress it is the only one, is_processing is
\* true, status is 'processing', and the counters are those of that run
C18_SingleWriter ==
    \A t \in DOMAIN runs :
        runs[t].pc = "loop" =>
            /\ \A u \in DOMAIN runs : runs[u].pc = "loop" => u = t
            /\ processing_progress.is_processing
            /\ processing_progress.status = "processing"
            /\ processing_progress.total_files = Len(runs[t].pdf_files)

FirstSpan == pdfs["d.pdf"].pages[1].blocks[1].lines[1].spans[1]

\* C21: the bold flag and the underline flag of the feature vector of a block
\* are those of the style flags of the first span of the block
C21_FlagsFromFirstSpan ==
    (op = "extract_features_from_pdf" /\ ~ret.raised) =>
        /\ Len(ret.value) = 1
        /\ ret.value[1].is_bold = ((FirstSpan.flags \div 16) % 2 = 1)
        /\ ret.value[1].is_underlined = ((FirstSpan.flags \div 4) % 2 = 1)

(***************************************************************************)
(* The two search entry points compared (checked under SpecSearch).        *)
(***************************************************************************)
\* the fields the two kinds of result entry have in common
SharedFields ==
    {"document", "section_title", "page_number", "similarity_score", "level", "word_count"}

\* what find_similar_sections_fast returned (fast) and what
\* search_across_all_documents returned (all) for the same call agree: both
\* raised, or both returned the same sections in the same order with the same
\* ranks, the one with the content and the other with its preview
SameRanking(fast, all) ==
    /\ fast.raised = all.raised
    /\ Len(fast.value) = Len(all.value)
    /\ \A n \in 1..Len(fast.value) :
          LET f == fast.value[n]
              a == all.value[n]
          IN /\ DOMAIN f = SharedFields \cup {"importance_rank", "content"}
             /\ DOMAIN a = SharedFields \cup {"rank", "content_preview"}
             /\ \A k \in SharedFields : f[k] = a[k]
             /\ f.importance_rank = a.rank
             /\ a.content_preview =
                   IF Len(f.content) > 200
                   THEN SubSeq(f.content, 1, 200) \o <<".", ".", ".">>
                   ELSE f.content

\* C22: whenever one entry point is called right after the other with the same
\* query, indices and top_n, the two results agree on sections, order, ranks,
\* scores, pages, levels and word counts
C22_EntryPointsEquivalent ==
    [][/\ (op = "find_similar_sections_fast" /\ op' = "search_across_all_documents")
            => SameRanking(ret, ret')
       /\ (op = "search_across_all_documents" /\ op' = "find_similar_sections_fast")
            => SameRanking(ret', ret)]_vars

\* search_across_all_documents returned two sections or more, one of them
\* with a preview cut at 200 characters
C22_Witness ==
    /\ op = "search_across_all_documents"
    /\ ~ret.raised
    /\ Len(ret.value) >= 2
    /\ \E n \in 1..Len(ret.value) : Len(ret.value[n].content_preview) = 203

(***************************************************************************)
(* Progress of a batch run (checked under SpecFair).                       *)
(***************************************************************************)
\* the batch run has just finished and the progress record says so
RunCompleted ==
    /\ op = "process_files_done"
    /\ runs[1].pc = "idle"
    /\ processing_progress.is_processing = FALSE
    /\ processing_progress.status = "completed"
    /\ processing_progress.current_file = ""

\* C23: a batch run that has started finishes with is_processing false,
\* status 'completed' and no current file; processed_files stays within
\* 0..total_files and does not decrease during the run, and the percentage
\* get_progress reports is within 0..100
C23_RunCompletes ==
    /\ (runs[1].pc = "loop") ~> RunCompleted
    /\ [](/\ 0 <= processing_progress.processed_files
          /\ processing_progress.processed_files <= processing_progress.total_files
          /\ op = "get_progress" => ret.value.percentage \in 0..100)
    /\ [][runs[1].pc = "loop" =>
             processing_progress'.processed_files >= processing_progress.processed_files]_vars

\* a batch run over a folder whose only document fails has finished
C23_Witness ==
    /\ RunCompleted
    /\ args.pdf_files # <<>>
    /\ ret.value.processed_files = <<>>
    /\ processing_progress.processed_files = 0
    /\ processing_progress.total_files = Len(args.pdf_files)

====
